---- MODULE Spec2Model ----
(***************************************************************************)
(* The recording / transcription pipeline of whisper_transcriber.py:       *)
(* the Tk main thread (button commands, after() callbacks, the queue poll) *)
(* and the three kinds of daemon threads it starts (model load, capture,   *)
(* transcription).  A handler of the main thread is one action; a thread   *)
(* is one action per step that reads or writes shared state, the local     *)
(* statements before it included.  Message boxes and label texts have no   *)
(* effect on the pipeline and are left out; the enabled/disabled state of  *)
(* the three buttons decides which commands the user can issue.            *)
(***************************************************************************)
EXTENDS Integers, Sequences, FiniteSets, TLC

\* Bounds of the model.
MaxCommands == 4   \* button commands the user issues
MaxReads == 2      \* results of the input stream: chunks and exceptions
MaxLen == 4        \* characters of a text of the model
SampleDen == 8     \* a sample is a multiple of 1/SampleDen
MaxSample == 32    \* samples range over -MaxSample..MaxSample such units

\* Identities of the sessions: a command starts at most one.
Sessions == 1..MaxCommands

VARIABLES
    WHISPER_AVAILABLE,      \* the import of whisper succeeded
    model,                  \* self.model: "None" or "tiny"
    is_recording,           \* self.is_recording
    audio_data,             \* self.audio_data: the list of chunks
    transcription_queue,    \* self.transcription_queue
    load_button,            \* state of the Load Model button
    unload_button,          \* state of the Unload Model button
    record_button,          \* state of the record button
    after_queue,            \* callbacks posted with root.after(0, ...)
    load_thread,            \* the load_model_thread threads: how many are
                            \* at each place (they are anonymous)
    recording_thread,       \* the record_audio threads, one per session
    transcribe_thread,      \* the transcribe_audio threads, one per stop
    refused,                \* history: start_recording returned at
                            \* "Please load the model first!"
    commands,               \* history: button commands issued so far
    chunks,                 \* history: chunks read from the input stream
    errors,                 \* history: exceptions raised by the input stream
    sessions,               \* history: sessions started so far
    cancelled,              \* history: sessions open when unload_model ran
    enqueued,               \* history: every item ever put on the queue
    delivered,              \* history: items handled by the poll, in order
    result,                 \* result["text"] of one model call
    queued,                 \* <<>>, or <<item>>: what transcribe_audio
                            \* puts for that text
    sample,                 \* one float sample of audio_array, in units
                            \* of 1/SampleDen
    int16                   \* <<>>, or <<v>>: that sample as written to
                            \* the WAV file

buttons == <<load_button, unload_button, record_button>>
\* The variables of the conversions checked on their own.
pure == <<result, queued, sample, int16>>
\* The variables of the pipeline.
pipeline == <<WHISPER_AVAILABLE, model, is_recording, audio_data,
              transcription_queue, load_button, unload_button,
              record_button, after_queue, load_thread, recording_thread,
              transcribe_thread, refused, commands, chunks, errors,
              sessions, cancelled, enqueued, delivered>>
history == <<chunks, errors, sessions, cancelled, enqueued, delivered>>
vars == <<WHISPER_AVAILABLE, model, is_recording, audio_data,
          transcription_queue, load_button, unload_button, record_button,
          after_queue, load_thread, recording_thread, transcribe_thread,
          refused, commands, chunks, errors, sessions, cancelled, enqueued,
          delivered, result, queued, sample, int16>>

----------------------------------------------------------------------------
\* str.strip() on a text given as a sequence of characters.
IsSpace(c) == c \in {" ", "\t", "\n"}

RECURSIVE lstrip(_)
lstrip(s) == IF s = <<>> THEN s
             ELSE IF IsSpace(Head(s)) THEN lstrip(Tail(s)) ELSE s

RECURSIVE rstrip(_)
rstrip(s) == IF s = <<>> THEN s
             ELSE IF IsSpace(s[Len(s)]) THEN rstrip(SubSeq(s, 1, Len(s) - 1))
             ELSE s

\* strip removing the leading whitespace only.
strip_LeadingOnly(s) == lstrip(s)

strip(s) == rstrip(lstrip(s))

\* Texts the model may return as result["text"].
ModelTexts == { <<>>, <<" ", "\n">>, <<" ", "h", " ", "i", "\t">> }

\* The items put on transcription_queue; worker tags the putting thread.
Success(w, text) == [type |-> "success", message |-> text, worker |-> w]
Error(w, text) == [type |-> "error", message |-> text, worker |-> w]
NoAudio == <<"No audio data recorded">>
NoSpeech == <<"No speech detected">>
Failed(e) == <<"Transcription failed: ", e>>
\* The item transcribe_audio puts for the text the model returned.
Transcribed(w, text) ==
    LET transcription == strip(text) IN
    IF transcription # <<>>
    THEN Success(w, transcription)
    ELSE Error(w, NoSpeech)

\* Thread objects before start().
NoRecording == [pc |-> "none", data |-> 0, n |-> 0, err |-> FALSE]
NoTranscribe == [pc |-> "none", audio_array |-> <<>>, temp_file |-> FALSE,
                 e |-> "", invoked |-> FALSE, via |-> "", unloaded |-> FALSE]

\* A transcribe_audio thread that is running; it puts its item in its
\* last step.
Active(w) == transcribe_thread[w].pc \notin {"none", "done"}

put(item) ==
    /\ transcription_queue' = Append(transcription_queue, item)
    /\ enqueued' = Append(enqueued, item)

----------------------------------------------------------------------------
InitPipeline ==
    /\ WHISPER_AVAILABLE \in BOOLEAN
    /\ model = "None"
    /\ is_recording = FALSE
    /\ audio_data = <<>>
    /\ transcription_queue = <<>>
    /\ load_button = "normal"
    /\ unload_button = "disabled"
    /\ record_button = "disabled"
    /\ after_queue = <<>>
    /\ load_thread = [start |-> 0, load |-> 0]
    /\ recording_thread = [t \in Sessions |-> NoRecording]
    /\ transcribe_thread = [w \in Sessions |-> NoTranscribe]
    /\ commands = 0
    /\ chunks = 0
    /\ errors = 0
    /\ sessions = 0
    /\ cancelled = {}
    /\ enqueued = <<>>
    /\ delivered = <<>>
    /\ refused = FALSE

Init ==
    /\ InitPipeline
    /\ result = <<>>
    /\ queued = <<>>
    /\ sample = 0
    /\ int16 = <<>>

\* The user presses an enabled button.
Command(button) ==
    /\ button = "normal"
    /\ commands < MaxCommands
    /\ commands' = commands + 1

----------------------------------------------------------------------------
\* Model management.

\* load_model: the command of the Load Model button.
load_model ==
    /\ Command(load_button)
    /\ IF ~WHISPER_AVAILABLE
       THEN UNCHANGED load_thread
       ELSE load_thread' = [load_thread EXCEPT !.start = @ + 1]
    /\ UNCHANGED <<pure, refused, WHISPER_AVAILABLE, model, is_recording, audio_data,
                   transcription_queue, buttons, after_queue,
                   recording_thread, transcribe_thread, history>>

\* load_model_thread up to the call of whisper.load_model.
load_model_thread_start ==
    /\ load_thread.start > 0
    /\ load_button' = "disabled"
    /\ load_thread' = [start |-> load_thread.start - 1,
                       load |-> load_thread.load + 1]
    /\ UNCHANGED <<pure, refused, WHISPER_AVAILABLE, model, is_recording, audio_data,
                   transcription_queue, unload_button, record_button,
                   after_queue, recording_thread, transcribe_thread,
                   commands, history>>

\* whisper.load_model returns or raises.
load_model_thread_load ==
    /\ load_thread.load > 0
    /\ load_thread' = [load_thread EXCEPT !.load = @ - 1]
    /\ \/ /\ model' = "tiny"
          /\ after_queue' = Append(after_queue, "model_loaded_successfully")
       \/ /\ model' = model
          /\ after_queue' = Append(after_queue, "model_load_failed")
    /\ UNCHANGED <<pure, refused, WHISPER_AVAILABLE, is_recording, audio_data,
                   transcription_queue, buttons, recording_thread,
                   transcribe_thread, commands, history>>

model_loaded_successfully ==
    /\ after_queue # <<>> /\ Head(after_queue) = "model_loaded_successfully"
    /\ after_queue' = Tail(after_queue)
    /\ load_button' = "disabled"
    /\ unload_button' = "normal"
    /\ record_button' = "normal"
    /\ UNCHANGED <<pure, refused, WHISPER_AVAILABLE, model, is_recording, audio_data,
                   transcription_queue, load_thread, recording_thread,
                   transcribe_thread, commands, history>>

\* model_load_failed configuring the buttons as model_loaded_successfully
\* does.
model_load_failed_AsLoaded ==
    /\ after_queue # <<>> /\ Head(after_queue) = "model_load_failed"
    /\ after_queue' = Tail(after_queue)
    /\ load_button' = "disabled"
    /\ unload_button' = "normal"
    /\ record_button' = "normal"
    /\ UNCHANGED <<pure, refused, WHISPER_AVAILABLE, model, is_recording,
                   audio_data, transcription_queue, load_thread,
                   recording_thread, transcribe_thread, commands, history>>

\* The callback root.after(0, self.model_load_failed, ...).
model_load_failed ==
    /\ after_queue # <<>> /\ Head(after_queue) = "model_load_failed"
    /\ after_queue' = Tail(after_queue)
    /\ load_button' = "normal"
    /\ UNCHANGED <<pure, refused, WHISPER_AVAILABLE, model, is_recording, audio_data,
                   transcription_queue, unload_button, record_button,
                   load_thread, recording_thread, transcribe_thread,
                   commands, history>>

\* unload_model: the command of the Unload Model button.
unload_model ==
    /\ Command(unload_button)
    /\ model' = "None"
    /\ load_button' = "normal"
    /\ unload_button' = "disabled"
    /\ record_button' = "disabled"
    /\ cancelled' = IF is_recording THEN cancelled \cup {sessions} ELSE cancelled
    /\ transcribe_thread' =
          [w \in Sessions |->
              IF Active(w) THEN [transcribe_thread[w] EXCEPT !.unloaded = TRUE]
              ELSE transcribe_thread[w]]
    /\ UNCHANGED <<pure, refused, WHISPER_AVAILABLE, is_recording, audio_data,
                   transcription_queue, after_queue, load_thread,
                   recording_thread, chunks, errors, sessions, enqueued,
                   delivered>>

----------------------------------------------------------------------------
\* Recording.

\* start_recording without the "if not self.model" check.
start_recording_NoCheck ==
    /\ is_recording' = TRUE
    /\ audio_data' = <<>>
    /\ sessions' = sessions + 1
    /\ recording_thread' =
          [recording_thread EXCEPT ![sessions + 1].pc = "open"]
    /\ UNCHANGED <<pure, refused, WHISPER_AVAILABLE, model,
                   transcription_queue, buttons, load_thread,
                   transcribe_thread, chunks, errors, cancelled, enqueued,
                   delivered>>

\* start_recording, called by toggle_recording.
start_recording ==
    IF model = "None"
    THEN /\ refused' = TRUE
         /\ UNCHANGED <<pure, WHISPER_AVAILABLE, model, is_recording, audio_data,
                     transcription_queue, buttons, load_thread,
                     recording_thread, transcribe_thread, history>>
    ELSE /\ is_recording' = TRUE
         /\ audio_data' = <<>>
         /\ sessions' = sessions + 1
         /\ recording_thread' =
               [recording_thread EXCEPT ![sessions + 1].pc = "open"]
         /\ UNCHANGED <<pure, refused, WHISPER_AVAILABLE, model, transcription_queue, buttons,
                        load_thread, transcribe_thread, chunks, errors,
                        cancelled, enqueued, delivered>>

\* stop_recording without the start of the transcription thread.
stop_recording_NoThread(via) ==
    /\ is_recording' = FALSE
    /\ UNCHANGED <<pure, refused, WHISPER_AVAILABLE, model, audio_data, transcription_queue,
                   buttons, load_thread, recording_thread, transcribe_thread,
                   history>>

\* stop_recording without the "if not self.is_recording: return" check.
stop_recording_NoGuard(via) ==
    /\ is_recording' = FALSE
    /\ transcribe_thread' =
          [transcribe_thread EXCEPT ![sessions].pc = "check",
                                    ![sessions].via = via]
    /\ UNCHANGED <<pure, refused, WHISPER_AVAILABLE, model, audio_data,
                   transcription_queue, buttons, load_thread,
                   recording_thread, history>>

\* stop_recording, called by toggle_recording (via = "toggle") and as the
\* callback posted by record_audio after an exception (via = "after").
stop_recording(via) ==
    IF ~is_recording
    THEN UNCHANGED <<pure, refused, WHISPER_AVAILABLE, model, is_recording, audio_data,
                     transcription_queue, buttons, load_thread,
                     recording_thread, transcribe_thread, history>>
    ELSE /\ is_recording' = FALSE
         /\ transcribe_thread' =
               [transcribe_thread EXCEPT ![sessions].pc = "check",
                                         ![sessions].via = via]
         /\ UNCHANGED <<pure, refused, WHISPER_AVAILABLE, model, audio_data,
                        transcription_queue, buttons, load_thread,
                        recording_thread, history>>

\* toggle_recording: the command of the record button.
toggle_recording ==
    /\ Command(record_button)
    /\ IF ~is_recording THEN start_recording ELSE stop_recording("toggle")
    /\ UNCHANGED after_queue

\* The callback root.after(0, self.stop_recording) of record_audio.
after_stop_recording ==
    /\ after_queue # <<>> /\ Head(after_queue) = "stop_recording"
    /\ after_queue' = Tail(after_queue)
    /\ stop_recording("after")
    /\ UNCHANGED commands

\* The except clause of record_audio: the message box "Recording Error"
\* and stop_recording are posted to the main thread.
record_audio_except(t) ==
    /\ chunks + errors < MaxReads
    /\ errors' = errors + 1
    /\ recording_thread' = [recording_thread EXCEPT ![t].pc = "done",
                                                    ![t].err = TRUE]
    /\ after_queue' = Append(after_queue, "stop_recording")

\* record_audio: sd.InputStream(...) opens or raises.
record_audio_open(t) ==
    /\ recording_thread[t].pc = "open"
    /\ \/ /\ recording_thread' = [recording_thread EXCEPT ![t].pc = "while"]
          /\ UNCHANGED <<after_queue, errors>>
       \/ record_audio_except(t)
    /\ UNCHANGED <<pure, refused, WHISPER_AVAILABLE, model, is_recording, audio_data,
                   transcription_queue, buttons, load_thread,
                   transcribe_thread, commands, chunks, sessions, cancelled,
                   enqueued, delivered>>

\* record_audio: the test of while self.is_recording, and stream.read(1024),
\* which returns a chunk or raises.
record_audio_while(t) ==
    /\ recording_thread[t].pc = "while"
    /\ IF is_recording
       THEN \/ /\ chunks + errors < MaxReads
               /\ chunks' = chunks + 1
               /\ recording_thread' =
                     [recording_thread EXCEPT ![t].pc = "append",
                                              ![t].data = chunks + 1]
               /\ UNCHANGED <<after_queue, errors>>
            \/ /\ record_audio_except(t)
               /\ UNCHANGED chunks
       ELSE /\ recording_thread' = [recording_thread EXCEPT ![t].pc = "done"]
            /\ UNCHANGED <<after_queue, chunks, errors>>
    /\ UNCHANGED <<pure, refused, WHISPER_AVAILABLE, model, is_recording, audio_data,
                   transcription_queue, buttons, load_thread,
                   transcribe_thread, commands, sessions, cancelled,
                   enqueued, delivered>>

\* record_audio: self.audio_data.append(data.flatten()) and the sleep.
record_audio_append(t) ==
    /\ recording_thread[t].pc = "append"
    /\ audio_data' = Append(audio_data,
                            [t |-> t, data |-> recording_thread[t].data])
    /\ recording_thread' = [recording_thread EXCEPT ![t].pc = "while",
                                                    ![t].n = @ + 1]
    /\ UNCHANGED <<pure, refused, WHISPER_AVAILABLE, model, is_recording,
                   transcription_queue, buttons, after_queue, load_thread,
                   transcribe_thread, commands, history>>

----------------------------------------------------------------------------
\* Transcription.

\* transcribe_audio with the return after the first put missing.
transcribe_audio_check_NoReturn(w) ==
    /\ transcribe_thread[w].pc = "check"
    /\ IF audio_data = <<>>
       THEN put(Error(w, NoAudio))
       ELSE UNCHANGED <<transcription_queue, enqueued>>
    /\ transcribe_thread' = [transcribe_thread EXCEPT ![w].pc = "concatenate"]
    /\ UNCHANGED <<pure, refused, WHISPER_AVAILABLE, model, is_recording, audio_data,
                   buttons, after_queue, load_thread, recording_thread,
                   commands, chunks, errors, sessions, cancelled, delivered>>

\* transcribe_audio: if not self.audio_data: put error, return.
transcribe_audio_check(w) ==
    /\ transcribe_thread[w].pc = "check"
    /\ IF audio_data = <<>>
       THEN /\ put(Error(w, NoAudio))
            /\ transcribe_thread' = [transcribe_thread EXCEPT ![w].pc = "done"]
       ELSE /\ transcribe_thread' =
                  [transcribe_thread EXCEPT ![w].pc = "concatenate"]
            /\ UNCHANGED <<transcription_queue, enqueued>>
    /\ UNCHANGED <<pure, refused, WHISPER_AVAILABLE, model, is_recording, audio_data,
                   buttons, after_queue, load_thread, recording_thread,
                   commands, chunks, errors, sessions, cancelled, delivered>>

\* transcribe_audio: np.concatenate(self.audio_data), which raises
\* ValueError on an empty list (caught by the outer except).
transcribe_audio_concatenate(w) ==
    /\ transcribe_thread[w].pc = "concatenate"
    /\ IF audio_data = <<>>
       THEN /\ put(Error(w, Failed("concatenate")))
            /\ transcribe_thread' =
                  [transcribe_thread EXCEPT ![w].pc = "done",
                                            ![w].e = "concatenate"]
       ELSE /\ transcribe_thread' =
                  [transcribe_thread EXCEPT ![w].pc = "write",
                                            ![w].audio_array = audio_data]
            /\ UNCHANGED <<transcription_queue, enqueued>>
    /\ UNCHANGED <<pure, refused, WHISPER_AVAILABLE, model, is_recording, audio_data,
                   buttons, after_queue, load_thread, recording_thread,
                   commands, chunks, errors, sessions, cancelled, delivered>>

\* transcribe_audio: the with block (the temporary file is created with
\* delete=False and wav.write fills it or raises), then self.model.transcribe
\* is evaluated and called: AttributeError when self.model is None, and
\* then the finally clause unlinks the file and the outer except puts.
transcribe_audio_write(w) ==
    /\ transcribe_thread[w].pc = "write"
    /\ \/ /\ put(Error(w, Failed("wav.write")))
          /\ transcribe_thread' =
                [transcribe_thread EXCEPT ![w].pc = "done",
                                          ![w].e = "wav.write",
                                          ![w].temp_file = TRUE]
       \/ IF model = "None"
          THEN /\ put(Error(w, Failed("AttributeError")))
               /\ transcribe_thread' =
                     [transcribe_thread EXCEPT ![w].pc = "done",
                                               ![w].e = "AttributeError"]
          ELSE /\ transcribe_thread' =
                     [transcribe_thread EXCEPT ![w].pc = "transcribe",
                                               ![w].temp_file = TRUE,
                                               ![w].invoked = TRUE]
               /\ UNCHANGED <<transcription_queue, enqueued>>
    /\ UNCHANGED <<pure, refused, WHISPER_AVAILABLE, model, is_recording, audio_data,
                   buttons, after_queue, load_thread, recording_thread,
                   commands, chunks, errors, sessions, cancelled, delivered>>

\* transcribe_audio without the outer except: an exception of the model
\* call ends the thread.
transcribe_audio_transcribe_NoExcept(w) ==
    /\ transcribe_thread[w].pc = "transcribe"
    /\ \/ /\ \E text \in ModelTexts : put(Transcribed(w, text))
          /\ transcribe_thread' =
                [transcribe_thread EXCEPT ![w].pc = "done",
                                          ![w].temp_file = FALSE]
       \/ /\ UNCHANGED <<transcription_queue, enqueued>>
          /\ transcribe_thread' =
                [transcribe_thread EXCEPT ![w].pc = "done",
                                          ![w].e = "transcribe",
                                          ![w].temp_file = FALSE]
    /\ UNCHANGED <<pure, refused, WHISPER_AVAILABLE, model, is_recording, audio_data,
                   buttons, after_queue, load_thread, recording_thread,
                   commands, chunks, errors, sessions, cancelled, delivered>>

\* transcribe_audio: the model call returns a text, which is stripped and
\* put as success or as "No speech detected", or the call raises and the
\* outer except puts; the finally clause unlinks the file on both paths.
transcribe_audio_transcribe(w) ==
    /\ transcribe_thread[w].pc = "transcribe"
    /\ \/ /\ \E text \in ModelTexts : put(Transcribed(w, text))
          /\ transcribe_thread' =
                [transcribe_thread EXCEPT ![w].pc = "done",
                                          ![w].temp_file = FALSE]
       \/ /\ put(Error(w, Failed("transcribe")))
          /\ transcribe_thread' =
                [transcribe_thread EXCEPT ![w].pc = "done",
                                          ![w].e = "transcribe",
                                          ![w].temp_file = FALSE]
    /\ UNCHANGED <<pure, refused, WHISPER_AVAILABLE, model, is_recording, audio_data,
                   buttons, after_queue, load_thread, recording_thread,
                   commands, chunks, errors, sessions, cancelled, delivered>>

\* transcribe_audio, one step of the thread.
transcribe_audio(w) ==
    \/ transcribe_audio_check(w)
    \/ transcribe_audio_concatenate(w)
    \/ transcribe_audio_write(w)
    \/ transcribe_audio_transcribe(w)

\* check_transcription_queue with one get_nowait per poll in place of the
\* while loop.
check_transcription_queue_NoLoop ==
    /\ IF transcription_queue = <<>>
       THEN UNCHANGED <<delivered, transcription_queue>>
       ELSE /\ delivered' = Append(delivered, Head(transcription_queue))
            /\ transcription_queue' = Tail(transcription_queue)
    /\ UNCHANGED <<pure, refused, WHISPER_AVAILABLE, model, is_recording,
                   audio_data, buttons, after_queue, load_thread,
                   recording_thread, transcribe_thread, commands, chunks,
                   errors, sessions, cancelled, enqueued>>

\* check_transcription_queue: get_nowait until queue.Empty.
check_transcription_queue ==
    /\ delivered' = delivered \o transcription_queue
    /\ transcription_queue' = <<>>
    /\ UNCHANGED <<pure, refused, WHISPER_AVAILABLE, model, is_recording, audio_data,
                   buttons, after_queue, load_thread, recording_thread,
                   transcribe_thread, commands, chunks, errors, sessions,
                   cancelled, enqueued>>

----------------------------------------------------------------------------
Next ==
    \/ load_model
    \/ load_model_thread_start
    \/ load_model_thread_load
    \/ model_loaded_successfully
    \/ model_load_failed
    \/ unload_model
    \/ toggle_recording
    \/ after_stop_recording
    \/ \E t \in Sessions : record_audio_open(t)
    \/ \E t \in Sessions : record_audio_while(t)
    \/ \E t \in Sessions : record_audio_append(t)
    \/ \E w \in Sessions : transcribe_audio(w)
    \/ check_transcription_queue

Spec == Init /\ [][Next]_vars

\* The transcription threads are scheduled: one that can step does step.
FairSpec == Spec /\ \A w \in Sessions : WF_vars(transcribe_audio(w))

\* The poll is run again and again: every run ends with
\* root.after(100, self.check_transcription_queue).
PollSpec == Spec /\ WF_vars(check_transcription_queue)

-----------------------------------------------------------------------------
\* The handling of the model's text, on its own: any text of at most
\* MaxLen characters, whitespace or not.

Chars == {" ", "\n", "h", "i"}
Texts == UNION {[1..n -> Chars] : n \in 0..MaxLen}

TextInit ==
    /\ InitPipeline
    /\ result \in Texts
    /\ queued = <<>>
    /\ sample = 0
    /\ int16 = <<>>

\* transcribe_audio from the return of self.model.transcribe to the put.
transcribe_audio_text ==
    /\ queued = <<>>
    /\ queued' = <<Transcribed(1, result)>>
    /\ UNCHANGED <<pipeline, result, sample, int16>>

TextSpec == TextInit /\ [][transcribe_audio_text]_vars

-----------------------------------------------------------------------------
\* The conversion of a sample for the WAV file, on its own:
\* (audio_array * 32767).astype(np.int16).  A sample is the rational
\* sample / SampleDen; samples outside [-1, 1] are among the inputs.

Int16Scale == 32767

\* The integer part of p / q (q > 0), as a cast of a float to an integer
\* takes it: towards zero.
Trunc(p, q) == IF p >= 0 THEN p \div q ELSE -((-p) \div q)

\* The low 16 bits of v as a signed number.
Wrap16(v) == ((v + 2^15) % 2^16) - 2^15

\* astype(np.int16) of a float with integer part v.  For a v that int16
\* cannot hold the cast is undefined in C: the builds keep the low 16 bits
\* or saturate.
astype_int16(v) ==
    IF v \in -(2^15)..(2^15 - 1)
    THEN {v}
    ELSE {Wrap16(v), IF v > 0 THEN 2^15 - 1 ELSE -(2^15)}

SampleInit ==
    /\ InitPipeline
    /\ result = <<>>
    /\ queued = <<>>
    /\ sample \in -MaxSample..MaxSample
    /\ int16 = <<>>

\* The third argument of wav.write, for one sample.
wav_write ==
    /\ int16 = <<>>
    /\ \E v \in astype_int16(Trunc(sample * Int16Scale, SampleDen)) :
          int16' = <<v>>
    /\ UNCHANGED <<pipeline, result, queued, sample>>

SampleSpec == SampleInit /\ [][wav_write]_vars

----------------------------------------------------------------------------
\* Properties.

\* The places of enqueued that hold an item put by transcription thread w.
Outcomes(w) == {k \in 1..Len(enqueued) : enqueued[k].worker = w}
\* The item put by w, when there is exactly one.
Outcome(w) == enqueued[CHOOSE k \in Outcomes(w) : TRUE]
\* The step of the main thread that runs the posted stop_recording.
IsAfterStopRecording ==
    /\ after_queue # <<>> /\ Head(after_queue) = "stop_recording"
    /\ after_queue' = Tail(after_queue)

\* C1: in every reachable state at most one transcription thread is
\* running, i.e. no recording is stopped (and so none started) while an
\* earlier transcribe_audio has not yet put its item.
C1_AtMostOneWorker ==
    Cardinality({w \in Sessions : Active(w)}) <= 1

\* C2: every transcribe_audio thread has put exactly one item, typed
\* "success" or "error", when it has terminated, and none before its last
\* step, on every path; a thread never started has put none.
C2_ExactlyOneOutcome ==
    \A w \in Sessions :
        /\ transcribe_thread[w].pc # "done" => Outcomes(w) = {}
        /\ transcribe_thread[w].pc = "done" =>
              /\ Cardinality(Outcomes(w)) = 1
              /\ Outcome(w).type \in {"success", "error"}

\* C2 witness: a stopped session whose thread ended on the model exception
\* path, and one that ended with a success, each with its single item.
C2_Witness ==
    /\ \E w \in Sessions :
          /\ transcribe_thread[w].pc = "done"
          /\ transcribe_thread[w].e = "transcribe"
          /\ Cardinality(Outcomes(w)) = 1
    /\ \E w \in Sessions :
          /\ transcribe_thread[w].pc = "done"
          /\ Cardinality(Outcomes(w)) = 1
          /\ Outcome(w).type = "success"

\* C3: after unload_model ran while recording, the pipeline is not
\* recording that session any more, no transcription thread is ever
\* started for it and no item of it is ever put on the queue.
C3_UnloadCancelsRecording ==
    \A s \in cancelled :
        /\ s = sessions => ~is_recording
        /\ transcribe_thread[s].pc = "none"
        /\ Outcomes(s) = {}

\* C4: a capture thread appends a chunk only while the transcription
\* thread of its session has not yet read audio_data.
C4_ChunksBeforeSnapshot ==
    [][\A t \in Sessions :
          recording_thread'[t].n > recording_thread[t].n =>
             transcribe_thread[t].pc \in {"none", "check", "concatenate"}]_vars

\* C5: the k-th item ever enqueued is the item of the k-th stopped session,
\* and once no transcription thread runs there are as many items as
\* stopped sessions.
C5_OutcomesInSessionOrder ==
    /\ \A k \in 1..Len(enqueued) : enqueued[k].worker = k
    /\ (\A w \in Sessions : ~Active(w)) =>
          Len(enqueued) =
             Cardinality({w \in Sessions : transcribe_thread[w].pc = "done"})

\* C6: whenever an item is put on the queue, the pipeline is then idle:
\* not recording and with no transcription thread running.
C6_IdleAfterOutcome ==
    [][Len(enqueued') > Len(enqueued) =>
          /\ ~is_recording'
          /\ \A w \in Sessions : transcribe_thread'[w].pc \in {"none", "done"}]_vars

C8_UnloadDeferred ==
    \A w \in Sessions :
        transcribe_thread[w].unloaded =>
           /\ Active(w) => model # "None"
           /\ transcribe_thread[w].e # "AttributeError"

\* C9: the pipeline is never left with a transcription thread that does
\* not end: again and again no transcription thread is running; a thread
\* that has ended has put its item; and when the model call raised, the
\* item is the error "Transcription failed".
C9_NeverStuck ==
    /\ []<>(\A w \in Sessions : ~Active(w))
    /\ [](\A w \in Sessions :
             transcribe_thread[w].pc = "done" => Outcomes(w) # {})
    /\ [](\A w \in Sessions :
             (transcribe_thread[w].pc = "done" /\ transcribe_thread[w].e = "transcribe")
                => Outcome(w) = Error(w, Failed("transcribe")))

\* C9 witness: a transcription thread whose model call raised has
\* terminated, the model having been invoked.
C9_Witness ==
    \E w \in Sessions :
        /\ transcribe_thread[w].pc = "done"
        /\ transcribe_thread[w].invoked
        /\ transcribe_thread[w].e = "transcribe"
        /\ Outcomes(w) # {}
        /\ Outcome(w).type = "error"

\* C10: a session stopped by the user whose capture loop ended, without a
\* device error, having appended no chunk yields the error "No audio data
\* recorded" when its transcription thread has terminated, and the model
\* was not invoked for it.
C10_ZeroChunksNoAudio ==
    \A w \in Sessions :
        (/\ transcribe_thread[w].pc = "done"
         /\ transcribe_thread[w].via = "toggle"
         /\ recording_thread[w].pc = "done"
         /\ ~recording_thread[w].err
         /\ recording_thread[w].n = 0)
        => /\ Outcomes(w) # {}
           /\ Outcome(w) = Error(w, NoAudio)
           /\ ~transcribe_thread[w].invoked

\* C11: a start_recording called while no model is loaded is refused and
\* changes nothing: is_recording stays FALSE, audio_data is unchanged, no
\* capture thread is started, nothing is put on transcription_queue, no
\* transcription thread is started and the model stays unloaded.
C11_StartWithoutModelRefused ==
    [][(toggle_recording /\ ~is_recording /\ model = "None")
          => /\ refused'
             /\ ~is_recording'
             /\ model' = "None"
             /\ UNCHANGED <<audio_data, recording_thread, sessions,
                            transcribe_thread, transcription_queue,
                            enqueued, buttons>>]_vars

\* C11 witness: start_recording has been refused (the record button was
\* enabled by a second load finishing after unload_model) and no session
\* was ever started.
C11_Witness ==
    /\ refused
    /\ model = "None"
    /\ ~is_recording
    /\ sessions = 0
    /\ record_button = "normal"

\* C12: a stop_recording called while not recording (the callback posted
\* by a device error, run after the session was already stopped) is a
\* no-op: is_recording, audio_data, model and transcription_queue are
\* unchanged and no transcription thread is started.
C12_StopWhileNotRecordingNoOp ==
    [][(IsAfterStopRecording /\ ~is_recording)
          => UNCHANGED <<is_recording, audio_data, model,
                         transcription_queue, enqueued, transcribe_thread,
                         recording_thread, sessions, buttons>>]_vars

\* C12 witness: a capture loop raised and every posted stop_recording has
\* run, none of them having started a transcription thread.
C12_Witness ==
    /\ \E t \in Sessions : recording_thread[t].err
    /\ \A k \in 1..Len(after_queue) : after_queue[k] # "stop_recording"
    /\ \A w \in Sessions : transcribe_thread[w].via # "after"
    /\ ~is_recording

\* The step of a load thread in which whisper.load_model raises.
IsLoadRaised ==
    after_queue' = Append(after_queue, "model_load_failed")
\* The step of the main thread that runs the posted model_load_failed.
IsModelLoadFailed ==
    /\ after_queue # <<>> /\ Head(after_queue) = "model_load_failed"
    /\ after_queue' = Tail(after_queue)

IsTrimmed(t, s) ==
    \E i, j \in 0..Len(s) :
        /\ i + Len(t) + j = Len(s)
        /\ \A k \in 1..i : IsSpace(s[k])
        /\ \A k \in (Len(s) - j + 1)..Len(s) : IsSpace(s[k])
        /\ \A k \in 1..Len(t) : t[k] = s[i + k]
        /\ t # <<>> => (~IsSpace(t[1]) /\ ~IsSpace(t[Len(t)]))

\* C14: the item put for a text of the model carries that text without its
\* leading and trailing whitespace: a text with a non-whitespace character
\* yields a success item with the trimmed, non-empty text, and an empty or
\* whitespace-only text yields the error "No speech detected".
C14_OutcomeIsStrippedText ==
    queued # <<>> =>
        IF \E k \in 1..Len(result) : ~IsSpace(result[k])
        THEN /\ queued[1].type = "success"
             /\ queued[1].message # <<>>
             /\ IsTrimmed(queued[1].message, result)
        ELSE /\ queued[1].type = "error"
             /\ queued[1].message = NoSpeech

\* C14 witness: a text with whitespace on both sides and inside has been
\* put as a success with the two outer characters removed.
C14_Witness ==
    /\ queued # <<>>
    /\ result = <<" ", "h", " ", "\n">>
    /\ queued[1].type = "success"
    /\ queued[1].message = <<"h">>

\* C15: the temporary WAV file is removed on every exit path of
\* transcribe_audio: no transcription thread has terminated with its file
\* still on disk, the path on which wav.write raised included.
C15_TempFileRemoved ==
    \A w \in Sessions :
        transcribe_thread[w].pc = "done" => ~transcribe_thread[w].temp_file

\* A record_audio thread inside its loop that will append: it holds a
\* chunk, or it is at the test of the while with is_recording true.
InLoop(t) ==
    \/ recording_thread[t].pc = "append"
    \/ recording_thread[t].pc = "while" /\ is_recording

\* C16: at most one capture loop can append to audio_data at any time:
\* never are two record_audio threads both inside the loop and about to
\* append, a start_recording right after a stop_recording included.
C16_SingleCaptureLoop ==
    Cardinality({t \in Sessions : InLoop(t)}) <= 1

\* C17: once the stop_recording that ends a session has run, that session's
\* record_audio thread is on its way out of the loop whatever follows, a
\* later start_recording included: at the test of the while it does not
\* begin another turn (it reads no further chunk).
C17_DisarmedThreadLeavesLoop ==
    [][\A t \in Sessions :
          (transcribe_thread[t].pc # "none" /\ recording_thread[t].pc = "while")
             => recording_thread'[t].pc # "append"]_vars

\* C18: the samples handed to the model for a session are that session's
\* chunks in the order of their appends: every chunk of the audio_array
\* written for the transcription thread of session w was read by the
\* capture thread of session w, and the chunks are in the order in which
\* they were read.
C18_OwnChunksInOrder ==
    \A w \in Sessions :
        transcribe_thread[w].invoked =>
            LET a == transcribe_thread[w].audio_array IN
            /\ \A k \in 1..Len(a) : a[k].t = w
            /\ \A k \in 1..(Len(a) - 1) : a[k].data < a[k + 1].data

\* C19: every sample, those outside [-1, 1] included, is written as
\* round(clamp(sample, -1, 1) * 32767): the value lies in -32767..32767 and
\* is within 1/2 of the clamped sample times 32767, so that out-of-range
\* samples saturate and in-range samples are rounded to the nearest integer.
C19_ClampedRounded ==
    int16 # <<>> =>
        LET clamped == IF sample > SampleDen THEN SampleDen
                       ELSE IF sample < -SampleDen THEN -SampleDen
                       ELSE sample
            d == int16[1] * SampleDen - clamped * Int16Scale
        IN /\ int16[1] \in -Int16Scale..Int16Scale
           /\ 2 * (IF d >= 0 THEN d ELSE -d) <= SampleDen

====
